---- MODULE Spec2Model ----
(***************************************************************************)
(* DykScribe (src/app.py): the submission pipeline of the Streamlit form.  *)
(*                                                                         *)
(* The script of app.py is executed from top to bottom on every user       *)
(* interaction.  One action of this model is one such script run, started  *)
(* by one user event (an edit, an upload, a button click); the session     *)
(* state (st.session_state) and the widget values survive between runs.    *)
(*                                                                         *)
(* Python values: a text is a sequence of one-character strings, None in a *)
(* text slot is NONE_TEXT, a byte string is a Blob record (its length and, *)
(* for documents, whether it starts with b'%PDF-').                        *)
(*                                                                         *)
(* Runtime assumptions (Streamlit, not part of src/):                      *)
(*  - a script run is not interrupted by another event (Spec); in          *)
(*    SpecInFlight an event that arrives during the store write ends the   *)
(*    run at its next Streamlit call and starts the run of that event;     *)
(*  - st.stop() and st.rerun() end the run and are not caught by           *)
(*    `except Exception`;                                                  *)
(*  - a widget that is not rendered in a run loses its value;              *)
(*  - the text area shows st.session_state['qa_text'] unless the user      *)
(*    edited it in the event that started the run.                         *)
(***************************************************************************)
EXTENDS Integers, Sequences, FiniteSets, Bags, TLC

VARIABLES
    \* st.session_state
    processing, transcribed, submitted, submission_data, manual_pdf, qa_text,
    audio_bytes_to_save,
    \* widget values held by the browser
    wav_audio_data, audio_file, uploaded_pdf, notes,
    \* the QAForms table, a bag of rows
    store,
    \* what the last run rendered, and whether st.rerun() was requested
    ui, rerun_pending,
    \* observation of the last run and of the current staged draft
    lastRun, hist,
    \* one call of transcribe_audio_enhanced, attempt by attempt
    tr,
    \* one call of a validator: the function, its argument, what it returned
    call

vars == <<processing, transcribed, submitted, submission_data, manual_pdf, qa_text,
          audio_bytes_to_save, wav_audio_data, audio_file, uploaded_pdf, notes,
          store, ui, rerun_pending, lastRun, hist, tr, call>>

appVars == <<processing, transcribed, submitted, submission_data, manual_pdf, qa_text,
             audio_bytes_to_save, wav_audio_data, audio_file, uploaded_pdf, notes,
             store, ui, rerun_pending, lastRun, hist>>

-----------------------------------------------------------------------------
(* Bounds of the model *)

\* records the table may hold before the model stops persisting
MaxStore == 2
\* largest max_retries the transcription harness is called with
MaxRetriesArg == 4

(* Program constants *)

min_audio_length == 1000
AUDIO_MIN_LEN == 1000
AUDIO_MAX_SIZE == 209715200
PDF_MAX_SIZE == 26214400
DEFAULT_MAX_RETRIES == 3

-----------------------------------------------------------------------------
(* Texts *)

NONE_TEXT == <<"None">>
EMPTY_TEXT == <<>>

T_QA == <<"Q", ":", "x", "\n", "A", ":", "x">>
T_PLAIN == <<"x", " ", "x">>
T_QQA == <<"Q", "1", ":", "x", "\n", "Q", "2", ":", "\n", "A", "1", ":">>
T_Q == <<"Q", ":", "x">>

IsSpace(c) == c \in {" ", "\n", "\t", "\r"}
IsDigit(c) == c \in {"0", "1", "2", "3", "4", "5", "6", "7", "8", "9"}

RECURSIVE lstrip(_)
lstrip(t) ==
    IF t = <<>> THEN <<>>
    ELSE IF IsSpace(Head(t)) THEN lstrip(Tail(t)) ELSE t

RECURSIVE rstrip(_)
rstrip(t) ==
    IF t = <<>> THEN <<>>
    ELSE IF IsSpace(t[Len(t)]) THEN rstrip(SubSeq(t, 1, Len(t) - 1)) ELSE t

\* str.strip()
strip(t) == rstrip(lstrip(t))

\* ^ without re.MULTILINE: the start of the string only
AtLineStart_StringStart(t, i) == i = 1

\* re.MULTILINE: ^ matches at the start of the string and after each newline
AtLineStart(t, i) == i = 1 \/ t[i - 1] = "\n"

\* the pattern ^<letter>\d*: matches at position i of t
MatchAt(letter, t, i) ==
    /\ AtLineStart(t, i)
    /\ t[i] = letter
    /\ \E j \in (i + 1)..Len(t) :
          /\ t[j] = ":"
          /\ \A k \in (i + 1)..(j - 1) : IsDigit(t[k])

\* bool(re.search(r"^<letter>(\d*)\:", text, re.MULTILINE))
re_search(letter, t) == \E i \in 1..Len(t) : MatchAt(letter, t, i)

\* len(re.findall(r"^<letter>\d*:", text, re.MULTILINE)); TypeError on None
re_findall_count(letter, t) == Cardinality({i \in 1..Len(t) : MatchAt(letter, t, i)})

is_valid_qa_text(t) ==
    IF t = NONE_TEXT \/ t = EMPTY_TEXT THEN FALSE
    ELSE re_search("Q", t) /\ re_search("A", t)

-----------------------------------------------------------------------------
(* Byte strings *)

Bytes(n, isPdf) == [tag |-> "bytes", len |-> n, magic |-> isPdf]
NoneBlob == [tag |-> "None", len |-> 0, magic |-> FALSE]
AbsentBlob == [tag |-> "absent", len |-> 0, magic |-> FALSE]

\* `not file_bytes`
Falsy(b) == b.tag # "bytes" \/ b.len = 0

\* the format check placed before the size check
validate_pdf_file_FormatFirst(b) ==
    IF Falsy(b) THEN "No file data"
    ELSE IF ~b.magic THEN "File is not a valid PDF"
    ELSE IF b.len > PDF_MAX_SIZE THEN "File too large"
    ELSE "ok"

\* lines 25-39; the result is the reason of the failure, or "ok"
validate_pdf_file(b) ==
    IF Falsy(b) THEN "No file data"
    ELSE IF b.len > PDF_MAX_SIZE THEN "File too large"
    ELSE IF ~b.magic THEN "File is not a valid PDF"
    ELSE "ok"

\* the floor comparing with <= in place of <
validate_audio_file_FloorInclusive(b) ==
    IF Falsy(b) THEN "No audio data"
    ELSE IF b.len > AUDIO_MAX_SIZE THEN "Audio file too large"
    ELSE IF b.len <= AUDIO_MIN_LEN THEN "Audio file too short"
    ELSE "ok"

\* lines 41-55; the result is the reason of the failure, or "ok"
validate_audio_file(b) ==
    IF Falsy(b) THEN "No audio data"
    ELSE IF b.len > AUDIO_MAX_SIZE THEN "Audio file too large"
    ELSE IF b.len < AUDIO_MIN_LEN THEN "Audio file too short"
    ELSE "ok"

-----------------------------------------------------------------------------
(* transcribe_audio_enhanced: the retry loop, one attempt per step *)

\* what one call of client.audio.transcriptions.create does
Outcomes == {[ok |-> TRUE, val |-> "t1"], [ok |-> TRUE, val |-> "t2"],
             [ok |-> FALSE, val |-> "e1"], [ok |-> FALSE, val |-> "e2"]}

\* state of the loop before its first iteration
TrStart(max_retries) ==
    [pc |-> "loop", max_retries |-> max_retries, attempt |-> 0,
     calls |-> <<>>, sleeps |-> <<>>, status |-> "running", value |-> ""]

\* range(max_retries) is exhausted: the function falls off its end, returning None
TrLoopExit(t) == [t EXCEPT !.pc = "done", !.status = "none", !.value = "None"]

\* the loop body without its `return`
TrAttempt_NoReturn(t, o) ==
    IF o.ok
    THEN [t EXCEPT !.calls = Append(@, o), !.value = o.val, !.attempt = t.attempt + 1]
    ELSE IF t.attempt < t.max_retries - 1
         THEN [t EXCEPT !.calls = Append(@, o), !.sleeps = Append(@, 1 + t.attempt),
                        !.attempt = t.attempt + 1]
         ELSE [t EXCEPT !.calls = Append(@, o), !.pc = "done", !.status = "raise",
                        !.value = o.val]

\* the loop body raising the first error it saw
TrAttempt_FirstError(t, o) ==
    IF o.ok
    THEN [t EXCEPT !.calls = Append(@, o), !.pc = "done", !.status = "ok", !.value = o.val]
    ELSE IF t.attempt < t.max_retries - 1
         THEN [t EXCEPT !.calls = Append(@, o), !.sleeps = Append(@, 1 + t.attempt),
                        !.attempt = t.attempt + 1]
         ELSE [t EXCEPT !.calls = Append(@, o), !.pc = "done", !.status = "raise",
                        !.value = Append(t.calls, o)[1].val]

\* the loop body sleeping one time unit before every retry
TrAttempt_ConstantDelay(t, o) ==
    IF o.ok
    THEN [t EXCEPT !.calls = Append(@, o), !.pc = "done", !.status = "ok", !.value = o.val]
    ELSE IF t.attempt < t.max_retries - 1
         THEN [t EXCEPT !.calls = Append(@, o), !.sleeps = Append(@, 1),
                        !.attempt = t.attempt + 1]
         ELSE [t EXCEPT !.calls = Append(@, o), !.pc = "done", !.status = "raise",
                        !.value = o.val]

\* one iteration of the loop body, the call ending as `o`
TrAttempt(t, o) ==
    LET called == [t EXCEPT !.calls = Append(@, o)] IN
    IF o.ok
    THEN [called EXCEPT !.pc = "done", !.status = "ok", !.value = o.val]
    ELSE IF t.attempt < t.max_retries - 1
         THEN [called EXCEPT !.sleeps = Append(@, 1 + t.attempt),
                             !.attempt = t.attempt + 1]
         ELSE [called EXCEPT !.pc = "done", !.status = "raise", !.value = o.val]

\* the loop head: `for attempt in range(max_retries)`
TrInLoop(t) == t.pc = "loop" /\ t.attempt < t.max_retries

RECURSIVE TrRun(_, _)
TrRun(t, outcomes) ==
    IF t.pc = "done" THEN t
    ELSE IF TrInLoop(t) THEN TrRun(TrAttempt(t, outcomes[t.attempt + 1]), outcomes)
    ELSE TrLoopExit(t)

\* the whole call, the i-th call to the capability ending as outcomes[i]
transcribe_audio_enhanced(outcomes, max_retries) == TrRun(TrStart(max_retries), outcomes)

-----------------------------------------------------------------------------
(* The draft and the table *)

\* st.session_state["submission_data"]: {} or the staged record.  Notes stands
\* for the form fields (UserName .. Notes), which are copied the same way.
EmptyData ==
    [empty |-> TRUE, Notes |-> "", NumQuestions |-> 0, NumAnswers |-> 0,
     PointsAwarded |-> 0, QAText |-> EMPTY_TEXT, Transcript |-> ""]

\* the row insert_submission writes
Row(data, audio_bytes, pdf_bytes) ==
    [Notes |-> data.Notes, NumQuestions |-> data.NumQuestions,
     NumAnswers |-> data.NumAnswers, PointsAwarded |-> data.PointsAwarded,
     QAText |-> data.QAText, Transcript |-> data.Transcript,
     AudioBlob |-> audio_bytes, ManualPDF |-> pdf_bytes]

\* truthiness of st.session_state['transcribed'] (False, True or None)
Truthy(v) == v = "True"

\* the session, the widgets and the table as one value
Cur ==
    [processing |-> processing, transcribed |-> transcribed, submitted |-> submitted,
     submission_data |-> submission_data, manual_pdf |-> manual_pdf,
     qa_text |-> qa_text, audio_bytes_to_save |-> audio_bytes_to_save,
     wav_audio_data |-> wav_audio_data, audio_file |-> audio_file,
     uploaded_pdf |-> uploaded_pdf, notes |-> notes, store |-> store,
     ui |-> ui, rerun_pending |-> rerun_pending, lastRun |-> lastRun, hist |-> hist]

NoUi ==
    [audio_visible |-> FALSE, qa_visible |-> FALSE, submit_enabled |-> FALSE,
     results_shown |-> FALSE, db_enabled |-> FALSE]

BlankRun ==
    [kind |-> "render", outcome |-> "", valid_audio |-> FALSE, qa_valid |-> FALSE,
     can_submit |-> FALSE, tcalls |-> 0, scalls |-> 0, transcript |-> "",
     structured |-> EMPTY_TEXT, typed |-> EMPTY_TEXT, steps |-> <<>>]

NoHist ==
    [writes |-> 0, storeFailed |-> FALSE, audio |-> FALSE,
     staged |-> Row(EmptyData, NoneBlob, NoneBlob)]

\* the user event that starts a run
NoEvent ==
    [edit |-> FALSE, text |-> EMPTY_TEXT, submit_btn |-> FALSE,
     submit_to_db |-> FALSE, start_over |-> FALSE]

\* what the collaborators do during a run
GptRaise == [kind |-> "raise", text |-> EMPTY_TEXT]
GptContent(t) == [kind |-> "content", text |-> t]
NoEnv == [tout |-> <<>>, gpt |-> GptRaise, db_ok |-> FALSE, interrupted |-> FALSE]

-----------------------------------------------------------------------------
(* The script, top to bottom *)

\* lines 425-441: the PDF uploader
PdfUpload(s) ==
    IF s.uploaded_pdf.tag = "bytes"
    THEN IF validate_pdf_file(s.uploaded_pdf) = "ok"
         THEN [s EXCEPT !.manual_pdf = s.uploaded_pdf]
         ELSE [s EXCEPT !.manual_pdf = NoneBlob]
    ELSE s

\* the audio inputs rendered whatever the session text
audio_section_visible_Always(s) == TRUE

\* line 467, with qa_text of line 447
audio_section_visible(s) == strip(s.qa_text) = EMPTY_TEXT

\* lines 482-490: file_bytes, None when validate_audio_file rejects the upload
file_bytes_of(uploaded) ==
    IF uploaded.tag = "bytes" /\ validate_audio_file(uploaded) = "ok"
    THEN uploaded ELSE NoneBlob

\* lines 472, 493, 494: `x is not None and len(x) > min_audio_length`
LongEnough(b) == b.tag = "bytes" /\ b.len > min_audio_length

\* line 493
valid_audio(wav, file_bytes) == LongEnough(wav) \/ LongEnough(file_bytes)

\* line 494
audio_to_save(wav, file_bytes) ==
    IF LongEnough(wav) THEN wav
    ELSE IF LongEnough(file_bytes) THEN file_bytes ELSE NoneBlob

\* any typed text counts
qa_valid_NonEmpty(text) == strip(text) # EMPTY_TEXT

\* lines 517 and 523
qa_valid(text) ==
    IF strip(text) # EMPTY_TEXT THEN is_valid_qa_text(strip(text)) ELSE FALSE

\* `or` in place of the exclusive or
can_submit_Or(qv, va) == qv \/ va

\* the guard always open
can_submit_Always(qv, va) == TRUE

\* line 526
can_submit(qv, va) == (qv /\ ~va) \/ (va /\ ~qv)

\* lines 528-533: the message shown when submission is not possible
guidance(qv, va) ==
    IF can_submit(qv, va) THEN "none"
    ELSE IF qv /\ va THEN "warning: not both"
    ELSE IF ~qv /\ ~va THEN "info: provide either"
    ELSE "none"

\* lines 496-526, the text area rendered and holding `area` (lines 510-516)
TypeOutShown(s, vis, wav, uploaded, area) ==
    [audio_section_visible |-> vis,
     qa_section_visible |-> TRUE,
     valid_audio |-> FALSE,
     audio_bytes_to_save |-> audio_to_save(wav, file_bytes_of(uploaded)),
     qa_text |-> area,
     qa_valid |-> qa_valid(area),
     can_submit |-> can_submit(qa_valid(area), FALSE),
     s |-> [s EXCEPT !.qa_text = area, !.wav_audio_data = wav, !.audio_file = uploaded]]

\* lines 496-526, the text area not rendered (line 506-508): qa_text stays that of line 447
TypeOutHidden(s, vis, wav, uploaded) ==
    [audio_section_visible |-> vis,
     qa_section_visible |-> FALSE,
     valid_audio |-> TRUE,
     audio_bytes_to_save |-> audio_to_save(wav, file_bytes_of(uploaded)),
     qa_text |-> strip(s.qa_text),
     qa_valid |-> FALSE,
     can_submit |-> can_submit(FALSE, TRUE),
     s |-> [s EXCEPT !.wav_audio_data = wav, !.audio_file = uploaded]]

\* lines 492-526: the locals the handlers read
TypeOut(s, ev, vis, wav, uploaded) ==
    IF valid_audio(wav, file_bytes_of(uploaded))
    THEN TypeOutHidden(s, vis, wav, uploaded)
    ELSE TypeOutShown(s, vis, wav, uploaded, IF ev.edit THEN ev.text ELSE s.qa_text)

\* lines 459-490: the audio widgets return their values only when rendered
AudioTab(s, ev, vis) ==
    TypeOut(s, ev, vis,
            IF vis THEN s.wav_audio_data ELSE NoneBlob,
            IF vis THEN s.audio_file ELSE NoneBlob)

\* lines 447-526
Inputs(s, ev) == AudioTab(s, ev, audio_section_visible(s))

-----------------------------------------------------------------------------
(* lines 537-640: the Submit handler *)

\* one point per answered question
points_awarded_Min(num_questions, num_answers) ==
    IF num_questions < num_answers THEN num_questions ELSE num_answers

\* line 614
points_awarded(num_questions, num_answers) == num_questions * 1

\* staging that leaves the staged audio of an earlier run in place
Stage_KeepsAudio(s, L, text, transcript, num_questions, num_answers) ==
    [s EXCEPT
        !.submission_data =
            [empty |-> FALSE, Notes |-> s.notes,
             NumQuestions |-> num_questions, NumAnswers |-> num_answers,
             PointsAwarded |-> points_awarded(num_questions, num_answers),
             QAText |-> text, Transcript |-> transcript],
        !.transcribed = "True",
        !.processing = FALSE,
        !.hist = [NoHist EXCEPT !.audio = L.valid_audio]]

\* lines 616-635: stage the record, mark the draft transcribed
Stage(s, L, text, transcript, num_questions, num_answers) ==
    [s EXCEPT
        !.submission_data =
            [empty |-> FALSE, Notes |-> s.notes,
             NumQuestions |-> num_questions, NumAnswers |-> num_answers,
             PointsAwarded |-> points_awarded(num_questions, num_answers),
             QAText |-> text, Transcript |-> transcript],
        !.audio_bytes_to_save = L.audio_bytes_to_save,
        !.transcribed = "True",
        !.processing = FALSE,
        !.hist = [NoHist EXCEPT !.audio = L.valid_audio]]

\* a failure branch that also empties the session text
StopFailed_ClearsText(s) == [s EXCEPT !.processing = FALSE, !.qa_text = EMPTY_TEXT]

\* lines 550-554, 584-588, 605-609: report, clear the flag, st.stop()
StopFailed(s) == [s EXCEPT !.processing = FALSE]

\* an outer handler that reports the error and leaves the flag
OuterExcept_KeepsFlag(s) == s

\* lines 637-640: the outer handler
OuterExcept(s) == [s EXCEPT !.processing = FALSE]

\* lines 582-583 and 603-604: the structured text replaces the local and the session text
WriteBack(s, text) == [s EXCEPT !.qa_text = text]

\* staging only a text that has the pattern
CountAndStage_RequiresPattern(s, L, text, run) ==
    IF text = NONE_TEXT \/ ~is_valid_qa_text(text)
    THEN [s |-> OuterExcept(s), stopped |-> FALSE,
          run |-> [run EXCEPT !.structured = text, !.outcome = "processing_failed"]]
    ELSE [s |-> Stage(s, L, text, run.transcript,
                      re_findall_count("Q", text), re_findall_count("A", text)),
          stopped |-> FALSE,
          run |-> [run EXCEPT !.structured = text, !.outcome = "finalized",
                              !.steps = @ \o <<"count", "score", "finalize">>]]

\* lines 611-635; re.findall raises TypeError when the text is None
CountAndStage(s, L, text, run) ==
    IF text = NONE_TEXT
    THEN [s |-> OuterExcept(s), stopped |-> FALSE,
          run |-> [run EXCEPT !.structured = text, !.outcome = "processing_failed"]]
    ELSE [s |-> Stage(s, L, text, run.transcript,
                      re_findall_count("Q", text), re_findall_count("A", text)),
          stopped |-> FALSE,
          run |-> [run EXCEPT !.structured = text, !.outcome = "finalized",
                              !.steps = @ \o <<"count", "score", "finalize">>]]

\* lines 556-588 and 590-609: the structuring call of either branch
Structure(s, L, gpt, run) ==
    IF gpt.kind = "raise"
    THEN [s |-> StopFailed(s), stopped |-> TRUE,
          run |-> [run EXCEPT !.scalls = 1, !.outcome = "structuring_failed"]]
    ELSE CountAndStage(WriteBack(s, gpt.text), L, gpt.text,
                       [run EXCEPT !.scalls = 1, !.steps = Append(@, "structure")])

\* the audio branch going on to structuring whatever transcription did
AudioBranch_IgnoresFailure(s, L, env, t, run) ==
    Structure(s, L, env.gpt,
              [run EXCEPT !.tcalls = Len(t.calls), !.transcript = t.value,
                          !.steps = IF t.status = "raise" THEN @ ELSE Append(@, "transcribe")])

\* lines 545-554, then the rest of the audio branch
AudioBranch(s, L, env, t, run) ==
    IF t.status = "raise"
    THEN [s |-> StopFailed(s), stopped |-> TRUE,
          run |-> [run EXCEPT !.tcalls = Len(t.calls), !.outcome = "transcription_failed"]]
    ELSE Structure(s, L, env.gpt,
                   [run EXCEPT !.tcalls = Len(t.calls), !.transcript = t.value,
                               !.steps = Append(@, "transcribe")])

\* what a Submit run is observed to do
SubmitRun(L) ==
    [BlankRun EXCEPT !.kind = "submit",
                     !.valid_audio = L.valid_audio,
                     !.qa_valid = L.qa_valid,
                     !.can_submit = L.can_submit,
                     !.typed = IF L.valid_audio THEN EMPTY_TEXT ELSE L.qa_text]

\* the handler transcribing on either path
SubmitHandler_AlwaysTranscribes(s, L, env) ==
    AudioBranch([s EXCEPT !.processing = TRUE], L, env,
                transcribe_audio_enhanced(env.tout, DEFAULT_MAX_RETRIES),
                SubmitRun(L))

\* lines 538-640: the body of `if submit_btn and can_submit:`
SubmitHandler(s, L, env) ==
    IF L.valid_audio
    THEN AudioBranch([s EXCEPT !.processing = TRUE], L, env,
                     transcribe_audio_enhanced(env.tout, DEFAULT_MAX_RETRIES),
                     SubmitRun(L))
    ELSE IF L.qa_valid
    THEN Structure([s EXCEPT !.processing = TRUE], L, env.gpt, SubmitRun(L))
    ELSE CountAndStage([s EXCEPT !.processing = TRUE], L, L.qa_text, SubmitRun(L))

-----------------------------------------------------------------------------
(* lines 643-709: the results block *)

\* the loop of lines 702-703 leaving 'qa_text' out
ClearDraft_KeepsText(s) ==
    [s EXCEPT !.transcribed = "None", !.submission_data = EmptyData,
              !.audio_bytes_to_save = NoneBlob, !.manual_pdf = NoneBlob]

\* lines 680-681 and 702-703
ClearDraft(s) ==
    [s EXCEPT !.transcribed = "None", !.submission_data = EmptyData,
              !.audio_bytes_to_save = NoneBlob, !.manual_pdf = NoneBlob,
              !.qa_text = EMPTY_TEXT]

\* lines 265-297: one transaction; True and the row is in the table, or False and it is not
insert_submission(s, data, audio_bytes, pdf_bytes, db_ok) ==
    IF db_ok /\ ~data.empty
    THEN [ok |-> TRUE,
          s |-> [s EXCEPT !.store = @ (+) SetToBag({Row(data, audio_bytes, pdf_bytes)}),
                          !.hist.writes = @ + 1]]
    ELSE [ok |-> FALSE, s |-> s]

\* the success branch without lines 702-703
PersistSucceeded_KeepsDraft(s) ==
    [s EXCEPT !.submitted = TRUE, !.processing = FALSE, !.rerun_pending = TRUE]

\* lines 696-707
PersistSucceeded(s) ==
    [ClearDraft([s EXCEPT !.submitted = TRUE, !.processing = FALSE])
        EXCEPT !.rerun_pending = TRUE]

\* the failure branch clearing the draft as the success branch does
PersistFailed_ClearsDraft(s) ==
    [ClearDraft([s EXCEPT !.processing = FALSE]) EXCEPT !.hist.storeFailed = TRUE]

\* lines 708-709
PersistFailed(s) == [s EXCEPT !.processing = FALSE, !.hist.storeFailed = TRUE]

\* lines 696-709, r being what insert_submission returned; a run that the
\* runtime ends at the st.success / st.error of lines 291 / 295 does not get here
AfterInsert(r, env) ==
    IF env.interrupted
    THEN [s |-> r.s, outcome |-> "interrupted"]
    ELSE IF r.ok
    THEN [s |-> PersistSucceeded(r.s), outcome |-> "stored"]
    ELSE [s |-> PersistFailed(r.s), outcome |-> "store_failed"]

\* lines 684-709: the body of `if submit_to_db:`; line 692 raises KeyError when
\* 'audio_bytes_to_save' was never set
PersistHandler(s, env) ==
    IF s.audio_bytes_to_save.tag = "absent"
    THEN [s |-> [s EXCEPT !.processing = TRUE], outcome |-> "key_error"]
    ELSE AfterInsert(insert_submission([s EXCEPT !.processing = TRUE],
                                       s.submission_data, s.audio_bytes_to_save,
                                       s.manual_pdf, env.db_ok), env)

\* lines 678-682
StartOver(s) == [ClearDraft(s) EXCEPT !.rerun_pending = TRUE]

\* the run ends having rendered `rendered` and done `run`
EndRun(s, rendered, run) == [s EXCEPT !.ui = rendered, !.lastRun = run]

\* the run ends in the persist handler
EndPersist(p, rendered, run) ==
    EndRun(p.s, rendered, [run EXCEPT !.kind = "persist", !.outcome = p.outcome])

\* lines 643-676: the results, the two buttons
ResultsShown(rendered, s) ==
    [rendered EXCEPT !.results_shown = TRUE, !.db_enabled = ~s.processing]

\* lines 643-709, entered with what the run rendered above them
Results(s, ev, env, rendered, run) ==
    IF ~Truthy(s.transcribed) THEN EndRun(s, rendered, run)
    ELSE IF ev.start_over
    THEN EndRun(StartOver(s), ResultsShown(rendered, s), [run EXCEPT !.kind = "startover"])
    ELSE IF ev.submit_to_db
    THEN EndPersist(PersistHandler(s, env), ResultsShown(rendered, s), run)
    ELSE EndRun(s, ResultsShown(rendered, s), run)

-----------------------------------------------------------------------------
(* One run of the script *)

\* line 535 and the tabs above it
Rendered(L) ==
    [audio_visible |-> L.audio_section_visible,
     qa_visible |-> L.qa_section_visible,
     submit_enabled |-> L.can_submit /\ ~L.s.processing,
     results_shown |-> FALSE, db_enabled |-> FALSE]

\* a run in which the Submit handler is not entered
PlainRun(L, ev) ==
    [BlankRun EXCEPT !.kind = IF ev.submit_btn THEN "submit" ELSE "render",
                     !.outcome = IF ev.submit_btn THEN "blocked" ELSE "",
                     !.valid_audio = L.valid_audio,
                     !.qa_valid = L.qa_valid,
                     !.can_submit = L.can_submit]

\* after the Submit handler: st.stop() ended the run, or the script goes on
AfterSubmit(h, ev, env, rendered) ==
    IF h.stopped THEN EndRun(h.s, rendered, h.run)
    ELSE Results(h.s, ev, env, rendered, h.run)

\* the handler entered on the click alone
Buttons_NoGuard(L, ev, env) ==
    IF ev.submit_btn
    THEN AfterSubmit(SubmitHandler(L.s, L, env), ev, env, Rendered(L))
    ELSE Results(L.s, ev, env, Rendered(L), PlainRun(L, ev))

\* lines 535-709
Buttons(L, ev, env) ==
    IF ev.submit_btn /\ L.can_submit
    THEN AfterSubmit(SubmitHandler(L.s, L, env), ev, env, Rendered(L))
    ELSE Results(L.s, ev, env, Rendered(L), PlainRun(L, ev))

\* line 447 onwards; st.session_state['qa_text'] = None has no strip(): the run
\* ends with the exception
FromTabs(s, ev, env) ==
    IF s.qa_text = NONE_TEXT
    THEN EndRun(s, NoUi, [BlankRun EXCEPT !.kind = "crash"])
    ELSE Buttons(Inputs(s, ev), ev, env)

Script(s, ev, env) == FromTabs(PdfUpload([s EXCEPT !.rerun_pending = FALSE]), ev, env)

\* the variables take the values of s
Becomes(s) ==
    /\ processing' = s.processing
    /\ transcribed' = s.transcribed
    /\ submitted' = s.submitted
    /\ submission_data' = s.submission_data
    /\ manual_pdf' = s.manual_pdf
    /\ qa_text' = s.qa_text
    /\ audio_bytes_to_save' = s.audio_bytes_to_save
    /\ wav_audio_data' = s.wav_audio_data
    /\ audio_file' = s.audio_file
    /\ uploaded_pdf' = s.uploaded_pdf
    /\ notes' = s.notes
    /\ store' = s.store
    /\ ui' = s.ui
    /\ rerun_pending' = s.rerun_pending
    /\ lastRun' = s.lastRun
    /\ hist' = s.hist

-----------------------------------------------------------------------------
(* What the user and the collaborators may supply *)

UserTexts == {EMPTY_TEXT, T_QA, T_PLAIN}
GptResults == {GptRaise, GptContent(T_QQA), GptContent(T_PLAIN), GptContent(NONE_TEXT)}
Recordings == {Bytes(50000, FALSE)}
\* a recording longer than the ceiling validate_audio_file puts on uploads
LongRecordings == {Bytes(AUDIO_MAX_SIZE + 1, FALSE)}
AudioUploads == {Bytes(1000, FALSE), Bytes(50000, FALSE)}
PdfUploads == {Bytes(2048, TRUE), Bytes(2048, FALSE)}
NoteTexts == {"n1"}
OtherNoteTexts == {"n2"}
\* the calls one Submit makes to the transcription capability: the loop stops at
\* the first success, so a run is DEFAULT_MAX_RETRIES failures or fewer failures and a success
AppOutcomes == {[ok |-> TRUE, val |-> "t1"], [ok |-> FALSE, val |-> "e1"]}
TranscriptionRuns ==
    {r \in UNION {[1..n -> AppOutcomes] : n \in 1..DEFAULT_MAX_RETRIES} :
        /\ \A i \in 1..(Len(r) - 1) : ~r[i].ok
        /\ Len(r) < DEFAULT_MAX_RETRIES => r[Len(r)].ok}

-----------------------------------------------------------------------------
(* The session after the page is first loaded *)

\* lines 94-110: init_session_state; 'audio_bytes_to_save' is not among the defaults
Fresh ==
    [processing |-> FALSE, transcribed |-> "False", submitted |-> FALSE,
     submission_data |-> EmptyData, manual_pdf |-> NoneBlob, qa_text |-> EMPTY_TEXT,
     audio_bytes_to_save |-> AbsentBlob,
     wav_audio_data |-> NoneBlob, audio_file |-> NoneBlob, uploaded_pdf |-> NoneBlob,
     notes |-> "n1", store |-> EmptyBag, ui |-> NoUi, rerun_pending |-> FALSE,
     lastRun |-> BlankRun, hist |-> NoHist]

FirstRun == Script(Fresh, NoEvent, NoEnv)

AppInit ==
    /\ processing = FirstRun.processing
    /\ transcribed = FirstRun.transcribed
    /\ submitted = FirstRun.submitted
    /\ submission_data = FirstRun.submission_data
    /\ manual_pdf = FirstRun.manual_pdf
    /\ qa_text = FirstRun.qa_text
    /\ audio_bytes_to_save = FirstRun.audio_bytes_to_save
    /\ wav_audio_data = FirstRun.wav_audio_data
    /\ audio_file = FirstRun.audio_file
    /\ uploaded_pdf = FirstRun.uploaded_pdf
    /\ notes = FirstRun.notes
    /\ store = FirstRun.store
    /\ ui = FirstRun.ui
    /\ rerun_pending = FirstRun.rerun_pending
    /\ lastRun = FirstRun.lastRun
    /\ hist = FirstRun.hist

\* no validator call is under way
NoCall == [fn |-> "", arg |-> NoneBlob, text |-> EMPTY_TEXT, pc |-> "done", result |-> ""]

Init == AppInit /\ tr = TrStart(DEFAULT_MAX_RETRIES) /\ call = NoCall

-----------------------------------------------------------------------------
(* User events; each starts one run of the script *)

Idle == ~rerun_pending

EditQAText ==
    /\ Idle /\ ui.qa_visible
    /\ \E t \in UserTexts :
          Becomes(Script(Cur, [NoEvent EXCEPT !.edit = TRUE, !.text = t], NoEnv))
    /\ UNCHANGED <<tr, call>>

RecordAudio ==
    /\ Idle /\ ui.audio_visible
    /\ \E b \in Recordings \cup {NoneBlob} :
          Becomes(Script([Cur EXCEPT !.wav_audio_data = b], NoEvent, NoEnv))
    /\ UNCHANGED <<tr, call>>

UploadAudio ==
    /\ Idle /\ ui.audio_visible
    /\ \E b \in AudioUploads \cup {NoneBlob} :
          Becomes(Script([Cur EXCEPT !.audio_file = b], NoEvent, NoEnv))
    /\ UNCHANGED <<tr, call>>

UploadPdf ==
    /\ Idle
    /\ \E b \in PdfUploads \cup {NoneBlob} :
          Becomes(Script([Cur EXCEPT !.uploaded_pdf = b], NoEvent, NoEnv))
    /\ UNCHANGED <<tr, call>>

EditNotes ==
    /\ Idle /\ lastRun.kind # "crash"
    /\ \E n \in NoteTexts :
          Becomes(Script([Cur EXCEPT !.notes = n], NoEvent, NoEnv))
    /\ UNCHANGED <<tr, call>>

ClickSubmit ==
    /\ Idle /\ ui.submit_enabled
    /\ \E tout \in TranscriptionRuns, gpt \in GptResults :
          Becomes(Script(Cur, [NoEvent EXCEPT !.submit_btn = TRUE],
                         [NoEnv EXCEPT !.tout = tout, !.gpt = gpt]))
    /\ UNCHANGED <<tr, call>>

ClickSubmitToDb ==
    /\ Idle /\ ui.results_shown /\ ui.db_enabled
    /\ BagCardinality(store) < MaxStore
    /\ \E db_ok \in BOOLEAN :
          Becomes(Script(Cur, [NoEvent EXCEPT !.submit_to_db = TRUE],
                         [NoEnv EXCEPT !.db_ok = db_ok]))
    /\ UNCHANGED <<tr, call>>

ClickStartOver ==
    /\ Idle /\ ui.results_shown
    /\ Becomes(Script(Cur, [NoEvent EXCEPT !.start_over = TRUE], NoEnv))
    /\ UNCHANGED <<tr, call>>

\* st.rerun(): the script runs again at once, with no event
Rerun ==
    /\ rerun_pending
    /\ Becomes(Script(Cur, NoEvent, NoEnv))
    /\ UNCHANGED <<tr, call>>

Next ==
    \/ EditQAText
    \/ RecordAudio
    \/ UploadAudio
    \/ UploadPdf
    \/ EditNotes
    \/ ClickSubmit
    \/ ClickSubmitToDb
    \/ ClickStartOver
    \/ Rerun

Spec == Init /\ [][Next]_vars

-----------------------------------------------------------------------------
(* The same, with a user who may also record for a long time: st_audiorec
   returns the WAV bytes of the recording, however long *)

RecordLongAudio ==
    /\ Idle /\ ui.audio_visible
    /\ \E b \in LongRecordings :
          Becomes(Script([Cur EXCEPT !.wav_audio_data = b], NoEvent, NoEnv))
    /\ UNCHANGED <<tr, call>>

NextLongRecording == Next \/ RecordLongAudio

SpecLongRecording == Init /\ [][NextLongRecording]_vars

-----------------------------------------------------------------------------
(* The same, with events that arrive while the store write is under way.  The
   buttons on the page are those the run rendered at lines 535 and 676, before
   line 685 set the processing flag; the run of the next event starts from the
   session state the ended run left. *)

ClickSubmitToDbInFlight ==
    /\ Idle /\ ui.results_shown /\ ui.db_enabled
    /\ BagCardinality(store) < MaxStore
    /\ \E db_ok \in BOOLEAN :
          Becomes(Script(Cur, [NoEvent EXCEPT !.submit_to_db = TRUE],
                         [NoEnv EXCEPT !.db_ok = db_ok, !.interrupted = TRUE]))
    /\ UNCHANGED <<tr, call>>

NextInFlight == Next \/ ClickSubmitToDbInFlight

SpecInFlight == Init /\ [][NextInFlight]_vars

-----------------------------------------------------------------------------
(* The same, remembering at each finalization the record as it then stood:
   the staged data, the staged audio and the document of the session.  The
   user records rather than uploads the audio, and may rewrite the notes. *)

Remembered(s) ==
    IF s.lastRun.kind = "submit" /\ s.lastRun.outcome = "finalized"
    THEN [s EXCEPT !.hist.staged = Row(s.submission_data, s.audio_bytes_to_save, s.manual_pdf)]
    ELSE s

ClickSubmitRemembered ==
    /\ Idle /\ ui.submit_enabled
    /\ \E tout \in TranscriptionRuns, gpt \in GptResults :
          Becomes(Remembered(Script(Cur, [NoEvent EXCEPT !.submit_btn = TRUE],
                                    [NoEnv EXCEPT !.tout = tout, !.gpt = gpt])))
    /\ UNCHANGED <<tr, call>>

RewriteNotes ==
    /\ Idle /\ lastRun.kind # "crash"
    /\ \E n \in NoteTexts \cup OtherNoteTexts :
          Becomes(Script([Cur EXCEPT !.notes = n], NoEvent, NoEnv))
    /\ UNCHANGED <<tr, call>>

\* the first write to the table
ClickSubmitToDbFirst == store = EmptyBag /\ ClickSubmitToDb

NextSnapshot ==
    \/ EditQAText
    \/ RecordAudio
    \/ UploadPdf
    \/ RewriteNotes
    \/ ClickSubmitRemembered
    \/ ClickSubmitToDbFirst
    \/ ClickStartOver
    \/ Rerun

SpecSnapshot == Init /\ [][NextSnapshot]_vars

-----------------------------------------------------------------------------
(* transcribe_audio_enhanced on its own, for every max_retries *)

TrInit == AppInit /\ tr \in {TrStart(n) : n \in (-1)..MaxRetriesArg} /\ call = NoCall

\* one pass through the loop body
TrCall ==
    /\ TrInLoop(tr)
    /\ \E o \in Outcomes : tr' = TrAttempt(tr, o)
    /\ UNCHANGED <<appVars, call>>

\* the loop ends without a return or a raise
TrFallThrough ==
    /\ tr.pc = "loop" /\ ~TrInLoop(tr)
    /\ tr' = TrLoopExit(tr)
    /\ UNCHANGED <<appVars, call>>

TrNext == TrCall \/ TrFallThrough

SpecTranscribe == TrInit /\ [][TrNext]_vars

-----------------------------------------------------------------------------
(* The validators on their own, for byte strings and texts around their limits *)

AudioArgs ==
    {Bytes(n, FALSE) : n \in {0, 1, AUDIO_MIN_LEN - 1, AUDIO_MIN_LEN, AUDIO_MIN_LEN + 1,
                              AUDIO_MAX_SIZE - 1, AUDIO_MAX_SIZE, AUDIO_MAX_SIZE + 1}}

\* a byte string that starts with b'%PDF-' has five bytes or more
PdfArgs ==
    {Bytes(n, FALSE) : n \in {0, 1, 2048, PDF_MAX_SIZE, PDF_MAX_SIZE + 1}}
    \cup {Bytes(n, TRUE) : n \in {5, 2048, PDF_MAX_SIZE, PDF_MAX_SIZE + 1}}

SampleLines ==
    {<<"Q", "1", ":">>, <<"A", "1", ":">>, <<"Q", ":">>, <<"A", ":", "x">>,
     <<"x">>, <<>>, <<" ", "Q", ":">>, <<"A", "1">>}

\* "\n".join(lines)
RECURSIVE JoinLines(_)
JoinLines(lines) ==
    IF Len(lines) = 0 THEN <<>>
    ELSE IF Len(lines) = 1 THEN lines[1]
    ELSE lines[1] \o <<"\n">> \o JoinLines(Tail(lines))

MaxLines == 3

TextArgs == {JoinLines(ls) : ls \in UNION {[1..n -> SampleLines] : n \in 1..MaxLines}}

PendingCall(fn, arg, text) ==
    [fn |-> fn, arg |-> arg, text |-> text, pc |-> "pending", result |-> ""]

PendingCalls ==
    {PendingCall("validate_audio_file", b, EMPTY_TEXT) : b \in AudioArgs}
    \cup {PendingCall("validate_pdf_file", b, EMPTY_TEXT) : b \in PdfArgs}
    \cup {PendingCall("is_valid_qa_text", NoneBlob, t) : t \in TextArgs}

ValidatorInit == AppInit /\ tr = TrStart(DEFAULT_MAX_RETRIES) /\ call \in PendingCalls

Returns(result) ==
    /\ call.pc = "pending"
    /\ call' = [call EXCEPT !.pc = "done", !.result = result]
    /\ UNCHANGED <<appVars, tr>>

CallValidateAudio ==
    call.fn = "validate_audio_file" /\ Returns(validate_audio_file(call.arg))

CallValidatePdf ==
    call.fn = "validate_pdf_file" /\ Returns(validate_pdf_file(call.arg))

CallIsValidQaText ==
    /\ call.fn = "is_valid_qa_text"
    /\ Returns(IF is_valid_qa_text(call.text) THEN "True" ELSE "False")

ValidatorNext == CallValidateAudio \/ CallValidatePdf \/ CallIsValidQaText

SpecValidators == ValidatorInit /\ [][ValidatorNext]_vars

-----------------------------------------------------------------------------
(* Vocabulary of the properties *)

Finalized == Truthy(transcribed)

Rows == BagToSet(store)

RECURSIVE SplitLines(_)
\* the lines of a text, split at "\n"
SplitLines(t) ==
    IF \A i \in 1..Len(t) : t[i] # "\n" THEN <<t>>
    ELSE LET n == CHOOSE i \in 1..Len(t) :
                      t[i] = "\n" /\ \A k \in 1..(i - 1) : t[k] # "\n"
         IN  <<SubSeq(t, 1, n - 1)>> \o SplitLines(SubSeq(t, n + 1, Len(t)))

\* a line beginning with the marker: the letter, digits if any, a colon
IsMarkerLine(line, letter) ==
    /\ Len(line) >= 2
    /\ line[1] = letter
    /\ \E j \in 2..Len(line) :
          line[j] = ":" /\ \A k \in 2..(j - 1) : IsDigit(line[k])

MarkerLines(t, letter) ==
    Cardinality({i \in 1..Len(SplitLines(t)) : IsMarkerLine(SplitLines(t)[i], letter)})

\* the required pattern: a question line and an answer line
MatchesPattern(t) == MarkerLines(t, "Q") >= 1 /\ MarkerLines(t, "A") >= 1

SubmitRan == lastRun.kind = "submit" /\ lastRun.outcome # "blocked"
SubmitFinalized == lastRun.kind = "submit" /\ lastRun.outcome = "finalized"
SubmitFailed ==
    /\ lastRun.kind = "submit"
    /\ lastRun.outcome \in {"transcription_failed", "structuring_failed", "processing_failed"}

-----------------------------------------------------------------------------
(* C1: a staged draft is written to the table at most once: after the write
   succeeds the draft is cleared, and until a new draft is finalized the
   Submit to Database button is not offered again. *)
C1_PersistOnce ==
    /\ hist.writes <= 1
    /\ (hist.writes = 1 /\ ~rerun_pending) => (~ui.results_shown /\ ~Finalized)

\* a draft has been written and the page has been rendered again
C1_Witness == hist.writes = 1 /\ ~rerun_pending /\ store # EmptyBag

(* C2: can_submit is the exclusive or of the two channel flags (false for
   both, false for neither), in every run, and the Submit handler runs only
   when it is true. *)
C2_CanSubmitIsXor ==
    /\ \A qv \in BOOLEAN, va \in BOOLEAN : can_submit(qv, va) <=> (qv # va)
    /\ lastRun.kind # "crash" =>
          (lastRun.can_submit <=> (lastRun.valid_audio # lastRun.qa_valid))
    /\ SubmitRan => lastRun.can_submit

\* Processing has run on the audio channel alone
C2_Witness == SubmitRan /\ lastRun.valid_audio /\ ~lastRun.qa_valid /\ lastRun.tcalls = 2

(* C3: a persist attempt whose store write fails leaves the draft Finalized,
   with the staged record, the audio blob and the document blob unchanged,
   nothing written and the button still offered; a persist attempt, first or
   retried, calls neither transcription nor structuring, and when it succeeds
   it writes exactly the staged record. *)
C3_StoreFailureKeepsDraft ==
    [][/\ (lastRun'.kind = "persist" /\ lastRun'.outcome = "store_failed") =>
            /\ transcribed' = "True" /\ transcribed = "True"
            /\ ~processing'
            /\ submission_data' = submission_data
            /\ audio_bytes_to_save' = audio_bytes_to_save
            /\ manual_pdf' = manual_pdf
            /\ store' = store
            /\ ~rerun_pending'
            /\ ui'.results_shown /\ ui'.db_enabled
       /\ lastRun'.kind = "persist" => (lastRun'.tcalls = 0 /\ lastRun'.scalls = 0)
       /\ (lastRun'.kind = "persist" /\ lastRun'.outcome = "stored" /\ ~rerun_pending) =>
            store' = store (+) SetToBag({Row(submission_data, audio_bytes_to_save,
                                             manual_pdf)})
      ]_vars

\* the write failed, and a retry on the same draft has succeeded
C3_Witness ==
    /\ lastRun.kind = "persist" /\ lastRun.outcome = "stored"
    /\ hist.storeFailed /\ hist.writes = 1

(* C4: a Submit run that fails (transcription exhausted, structuring failed,
   any other exception) clears the processing flag and leaves everything else
   as it was before the run: the typed text, the audio, the document, the
   staged draft; it does not mark the draft transcribed. *)
C4_FailedSubmitRollsBack ==
    [][SubmitFailed' =>
          /\ ~processing'
          /\ transcribed' = transcribed
          /\ submission_data' = submission_data
          /\ audio_bytes_to_save' = audio_bytes_to_save
          /\ qa_text' = qa_text
          /\ manual_pdf' = manual_pdf
          /\ wav_audio_data' = wav_audio_data
          /\ audio_file' = audio_file
          /\ store' = store
      ]_vars

(* C5: when the first k < max_retries attempts fail and attempt k+1 succeeds,
   the call returns the text of attempt k+1, and no attempt follows the first
   success: a success in the log of calls is its last entry, every entry
   before it is a failure, and the call has returned that entry's text. *)
C5_ReturnsFirstSuccess ==
    /\ tr.pc = "loop" => tr.attempt = Len(tr.calls)
    /\ \A i \in 1..Len(tr.calls) :
          tr.calls[i].ok =>
             /\ i = Len(tr.calls)
             /\ i <= tr.max_retries
             /\ \A k \in 1..(i - 1) : ~tr.calls[k].ok
             /\ tr.pc = "done" /\ tr.status = "ok"
             /\ tr.value = tr.calls[i].val
    /\ tr.status = "ok" => (tr.calls # <<>> /\ tr.calls[Len(tr.calls)].ok)
    /\ (tr.pc = "loop" /\ Len(tr.calls) < tr.max_retries) => TrInLoop(tr)

\* two failures, then the third attempt of three succeeds
C5_Witness ==
    /\ tr.max_retries = 3 /\ Len(tr.calls) = 3
    /\ ~tr.calls[1].ok /\ ~tr.calls[2].ok
    /\ tr.calls[3] = [ok |-> TRUE, val |-> "t2"]
    /\ tr.status = "ok" /\ tr.value = "t2"

(* C6: for max_retries >= 1, when every attempt fails the call makes exactly
   max_retries calls and then raises the error of the last one; the number of
   calls never exceeds max_retries. *)
C6_RaisesLastErrorAfterAllAttempts ==
    /\ Len(tr.calls) <= (IF tr.max_retries > 0 THEN tr.max_retries ELSE 0)
    /\ tr.status = "raise" =>
          /\ Len(tr.calls) = tr.max_retries
          /\ \A i \in 1..Len(tr.calls) : ~tr.calls[i].ok
          /\ tr.value = tr.calls[Len(tr.calls)].val
    /\ (/\ tr.max_retries >= 1
        /\ Len(tr.calls) = tr.max_retries
        /\ \A i \in 1..Len(tr.calls) : ~tr.calls[i].ok) =>
          (tr.pc = "done" /\ tr.status = "raise")

\* three attempts fail, the last with another error than the first
C6_Witness ==
    /\ tr.max_retries = 3 /\ tr.status = "raise" /\ Len(tr.calls) = 3
    /\ tr.calls[1].val = "e1" /\ tr.calls[3].val = "e2" /\ tr.value = "e2"

(* C7: in every Finalized draft and every stored row, PointsAwarded is the
   number of lines of the structured text that begin with Q: or Q<digits>:,
   a natural number, 0 when there is no such line, whatever the number of
   answer lines. *)
C7_ScoreIsQuestionLines ==
    /\ Finalized =>
          /\ submission_data.PointsAwarded = MarkerLines(submission_data.QAText, "Q")
          /\ submission_data.PointsAwarded \in Nat
    /\ \A row \in Rows :
          /\ row.PointsAwarded = MarkerLines(row.QAText, "Q")
          /\ row.PointsAwarded \in Nat

\* a stored row with two questions and one answer, and a Finalized draft scoring 0
C7_Witness ==
    /\ \E row \in Rows : row.PointsAwarded = 2 /\ row.NumAnswers = 1
    /\ Finalized /\ submission_data.PointsAwarded = 0

(* C8, as stated: in every Finalized state the staged structured text has a
   question line and an answer line. *)
C8_StagedTextMatchesPattern == Finalized => MatchesPattern(submission_data.QAText)

(* C8, amended: a draft is finalized from typed input only if the typed text,
   stripped, has a question line and an answer line; the staged structured
   text is the structuring output, staged without validation, and it has the
   pattern exactly when both staged counts are positive. *)
C8_TypedInputMatchesPattern ==
    /\ (SubmitFinalized /\ ~lastRun.valid_audio) => MatchesPattern(strip(lastRun.typed))
    /\ Finalized =>
          (MatchesPattern(submission_data.QAText) <=>
              (submission_data.NumQuestions >= 1 /\ submission_data.NumAnswers >= 1))

\* typed text with the pattern was finalized as structured text without it
C8_Witness ==
    /\ SubmitFinalized /\ ~lastRun.valid_audio
    /\ MatchesPattern(lastRun.typed)
    /\ ~MatchesPattern(submission_data.QAText)

(* C9: on the audio path, when transcription returns a text and structuring
   returns a text with no Q/A line, the run finalizes the draft with score 0
   and stages the transcript that transcription returned; a stored row with
   audio and no Q/A line has score 0 and carries a transcript. *)
C9_NoPairsStillFinalized ==
    /\ (/\ SubmitRan /\ lastRun.valid_audio
        /\ lastRun.outcome \notin {"transcription_failed", "structuring_failed"}
        /\ lastRun.structured # NONE_TEXT
        /\ MarkerLines(lastRun.structured, "Q") = 0
        /\ MarkerLines(lastRun.structured, "A") = 0) =>
          /\ lastRun.outcome = "finalized" /\ Finalized
          /\ submission_data.PointsAwarded = 0
          /\ submission_data.QAText = lastRun.structured
          /\ submission_data.Transcript = lastRun.transcript
          /\ lastRun.transcript \in {o.val : o \in {x \in AppOutcomes : x.ok}}
    /\ \A row \in Rows :
          (row.AudioBlob.tag = "bytes" /\ ~MatchesPattern(row.QAText)
             /\ MarkerLines(row.QAText, "Q") = 0) =>
                (row.PointsAwarded = 0 /\ row.Transcript \in {o.val : o \in {x \in AppOutcomes : x.ok}})

\* such a draft has been stored
C9_Witness ==
    \E row \in Rows :
        /\ row.AudioBlob.tag = "bytes" /\ row.QAText = T_PLAIN
        /\ row.PointsAwarded = 0 /\ row.Transcript = "t1"

(* C10: a Submit run that finalizes the draft used exactly one channel: the
   audio channel (audio longer than min_audio_length staged, transcription
   called) or the typed channel (typed text with the pattern, no audio staged,
   transcription not called). *)
C10_OneChannelAtFinalization ==
    SubmitFinalized =>
       /\ lastRun.valid_audio # lastRun.qa_valid
       /\ lastRun.valid_audio =>
             /\ lastRun.tcalls >= 1
             /\ audio_bytes_to_save.tag = "bytes"
             /\ audio_bytes_to_save.len > min_audio_length
             /\ submission_data.Transcript = lastRun.transcript
       /\ lastRun.qa_valid =>
             /\ lastRun.tcalls = 0
             /\ audio_bytes_to_save = NoneBlob
             /\ MatchesPattern(strip(lastRun.typed))

\* the typed channel finalized a draft after an earlier audio draft was stored
C10_Witness ==
    /\ SubmitFinalized /\ lastRun.qa_valid /\ ~lastRun.valid_audio
    /\ \E row \in Rows : row.AudioBlob.tag = "bytes"

(* C11: every audio blob and every document blob written to the table
   satisfies its validator: validate_audio_file accepts the audio blob and
   validate_pdf_file accepts the document blob. *)
C11_StoredBlobsAreValid ==
    \A row \in Rows :
       /\ row.AudioBlob.tag = "bytes" => validate_audio_file(row.AudioBlob) = "ok"
       /\ row.ManualPDF.tag = "bytes" => validate_pdf_file(row.ManualPDF) = "ok"

\* the persist run has just ended with the row written
JustStored == lastRun.kind = "persist" /\ lastRun.outcome = "stored" /\ rerun_pending

(* C12, as stated: after a successful persist every session field has the
   value init_session_state gives it in a new session. *)
C12_ResetEqualsFreshSession ==
    JustStored =>
       /\ processing = Fresh.processing
       /\ transcribed = Fresh.transcribed
       /\ submitted = Fresh.submitted
       /\ submission_data = Fresh.submission_data
       /\ manual_pdf = Fresh.manual_pdf
       /\ qa_text = Fresh.qa_text
       /\ audio_bytes_to_save = Fresh.audio_bytes_to_save

(* C12, amended: after a successful persist processing, submission_data,
   manual_pdf and qa_text have their initial values, transcribed and the
   staged audio are None (falsy, but not the initial False and absent key),
   submitted is True, and a rerun is requested; after that rerun no draft is
   Finalized, submitted is still True, and while the document uploader holds
   a file manual_pdf is that file if it is a valid PDF and None if not. *)
C12_ResetClearsDraftKeys ==
    /\ JustStored =>
          /\ processing = Fresh.processing
          /\ submission_data = Fresh.submission_data
          /\ manual_pdf = Fresh.manual_pdf
          /\ qa_text = Fresh.qa_text
          /\ transcribed = "None" /\ ~Truthy(transcribed)
          /\ audio_bytes_to_save = NoneBlob
          /\ submitted
    /\ (hist.writes = 1 /\ ~rerun_pending) =>
          /\ ~Finalized /\ submitted /\ submission_data = EmptyData
          /\ uploaded_pdf.tag = "bytes" =>
                manual_pdf = (IF validate_pdf_file(uploaded_pdf) = "ok"
                              THEN uploaded_pdf ELSE NoneBlob)

\* a typed draft with a document has just been stored
C12_Witness ==
    /\ JustStored /\ submitted /\ transcribed = "None"
    /\ validate_pdf_file(uploaded_pdf) = "ok"
    /\ \E row \in Rows : row.ManualPDF = uploaded_pdf /\ row.AudioBlob = NoneBlob

\* the texts a structuring call can return whole
StructuredTexts == {g.text : g \in {x \in GptResults : x.kind = "content"}} \ {NONE_TEXT}

(* C13: a Submit run that ends in the failure branch of the transcription
   step or of the structuring step changes nothing already staged: the staged
   record (transcript, structured text, counts, score), the session text, the
   staged audio, the transcribed flag and the table are as before the run;
   and a staged or stored structured text is always a whole structuring
   result. *)
C13_StepFailureKeepsStaged ==
    [][/\ (/\ lastRun'.kind = "submit"
            /\ lastRun'.outcome \in {"transcription_failed", "structuring_failed"}) =>
              /\ submission_data' = submission_data
              /\ qa_text' = qa_text
              /\ audio_bytes_to_save' = audio_bytes_to_save
              /\ transcribed' = transcribed
              /\ store' = store
              /\ lastRun'.structured = EMPTY_TEXT
       /\ Truthy(transcribed') => submission_data'.QAText \in StructuredTexts
       /\ \A row \in BagToSet(store') : row.QAText \in StructuredTexts
      ]_vars

\* structuring failed on the audio path while an earlier draft was staged
C13_Witness ==
    /\ lastRun.kind = "submit" /\ lastRun.outcome = "structuring_failed"
    /\ lastRun.valid_audio /\ lastRun.tcalls >= 1
    /\ Finalized /\ submission_data.Transcript = "t1"

\* the steps of a Processing run, in the order of lines 545-634
Pipeline(audio) ==
    IF audio THEN <<"transcribe", "structure", "count", "score", "finalize">>
    ELSE <<"structure", "count", "score", "finalize">>

IsPrefix(a, b) == Len(a) <= Len(b) /\ a = SubSeq(b, 1, Len(a))

(* C14: the steps a Processing run has completed are an initial part of
   transcribe, structure, count, score, finalize (without transcribe on the
   typed path): structuring is called only after transcription returned a
   text, counting follows a returned structuring result, and the transcribed
   flag is set only by a run that completed all of them, with the counts and
   the score of the structured text that run obtained. *)
C14_StepsInOrder ==
    [][(lastRun'.kind = "submit" /\ lastRun'.outcome # "blocked") =>
          /\ IsPrefix(lastRun'.steps, Pipeline(lastRun'.valid_audio))
          /\ lastRun'.outcome = "transcription_failed" =>
                (lastRun'.steps = <<>> /\ lastRun'.scalls = 0)
          /\ lastRun'.scalls = 1 =>
                (lastRun'.valid_audio =>
                    /\ lastRun'.tcalls >= 1
                    /\ lastRun'.transcript \in {o.val : o \in {x \in AppOutcomes : x.ok}})
          /\ lastRun'.outcome = "structuring_failed" =>
                (lastRun'.scalls = 1 /\ lastRun'.steps \in {<<>>, <<"transcribe">>})
          /\ lastRun'.outcome = "finalized" <=>
                lastRun'.steps = Pipeline(lastRun'.valid_audio)
          /\ lastRun'.outcome = "finalized" =>
                /\ transcribed' = "True"
                /\ submission_data'.QAText = lastRun'.structured
                /\ submission_data'.NumQuestions = MarkerLines(lastRun'.structured, "Q")
                /\ submission_data'.NumAnswers = MarkerLines(lastRun'.structured, "A")
                /\ submission_data'.PointsAwarded = submission_data'.NumQuestions
                /\ submission_data'.Transcript = lastRun'.transcript
          /\ lastRun'.outcome # "finalized" =>
                (transcribed' = transcribed /\ submission_data' = submission_data)
      ]_vars

\* an audio run completed every step after two failed transcription attempts
C14_Witness ==
    /\ lastRun.kind = "submit" /\ lastRun.valid_audio /\ lastRun.tcalls = 3
    /\ lastRun.steps = Pipeline(TRUE)
    /\ submission_data.NumQuestions = 2 /\ submission_data.NumAnswers = 1

\* the Submit button was clicked in a run whose guard is false
SubmitBlocked == lastRun.kind = "submit" /\ lastRun.outcome = "blocked"

(* C15: a click on Submit in a run where can_submit is false (both channels
   valid or neither) is always blocked, and a blocked run makes no
   transcription or structuring call, leaves every session field, the staged
   draft and the table as they were, does not set the processing flag, and
   shows the guidance message of lines 529-533. *)
C15_BlockedSubmitChangesNothing ==
    [][/\ (lastRun'.kind = "submit" /\ ~lastRun'.can_submit) => SubmitBlocked'
       /\ SubmitBlocked' =>
            /\ ~lastRun'.can_submit
            /\ lastRun'.valid_audio = lastRun'.qa_valid
            /\ lastRun'.tcalls = 0 /\ lastRun'.scalls = 0 /\ lastRun'.steps = <<>>
            /\ ~processing /\ ~processing'
            /\ UNCHANGED <<transcribed, submitted, submission_data, manual_pdf, qa_text,
                           audio_bytes_to_save, store>>
            /\ guidance(lastRun'.qa_valid, lastRun'.valid_audio) # "none"
      ]_vars

\* a click on a Submit button that the page still showed enabled was blocked
C15_Witness == SubmitBlocked /\ ~lastRun.valid_audio /\ ~lastRun.qa_valid /\ qa_text = T_PLAIN

(* C16: while the processing flag is set no Processing run and no persist
   run starts, and nothing is written to the table: a click on Submit or on
   Submit to Database is rejected until the operation in flight has cleared
   the flag. *)
C16_FlagRejectsSecondOperation ==
    [][processing =>
          /\ store' = store
          /\ lastRun'.kind # "persist"
          /\ ~(lastRun'.kind = "submit" /\ lastRun'.outcome # "blocked")
      ]_vars

Returned(fn) == call.fn = fn /\ call.pc = "done"

(* C17, as stated: validate_audio_file returns the too-short failure for
   every byte string shorter than 1000 bytes, the empty one included, the
   too-large failure above 200 MiB, and accepts the others. *)
C17_AudioShortLargeOrOk ==
    Returned("validate_audio_file") =>
       call.result = (IF call.arg.len < 1000 THEN "Audio file too short"
                      ELSE IF call.arg.len > 200 * 1024 * 1024 THEN "Audio file too large"
                      ELSE "ok")

(* C17, amended: validate_audio_file rejects the empty byte string with "No
   audio data", byte strings of 1 to 999 bytes with the too-short failure,
   byte strings above 200 MiB with the too-large failure, and accepts those
   from 1000 bytes to 200 MiB. *)
C17_AudioEmptyShortLargeOrOk ==
    Returned("validate_audio_file") =>
       /\ call.arg.len = 0 => call.result = "No audio data"
       /\ call.arg.len \in 1..999 => call.result = "Audio file too short"
       /\ call.arg.len \in 1000..(200 * 1024 * 1024) => call.result = "ok"
       /\ call.arg.len > 200 * 1024 * 1024 => call.result = "Audio file too large"

\* the empty byte string was rejected, and not as too short
C17_Witness ==
    /\ Returned("validate_audio_file") /\ call.arg = Bytes(0, FALSE)
    /\ call.result = "No audio data"

(* C18, as stated: validate_pdf_file returns the invalid-format failure for
   every byte string that does not start with %PDF-, whatever its length. *)
C18_NoSignatureIsInvalidFormat ==
    (Returned("validate_pdf_file") /\ ~call.arg.magic) =>
        call.result = "File is not a valid PDF"

(* C18, amended: for a byte string that does not start with %PDF-,
   validate_pdf_file returns "No file data" when it is empty, the too-large
   failure when it is longer than 25 MiB, and the invalid-format failure
   otherwise; a byte string with the signature is accepted up to 25 MiB and
   fails as too large above. *)
C18_SizeIsCheckedBeforeSignature ==
    Returned("validate_pdf_file") =>
       /\ call.arg.len = 0 => call.result = "No file data"
       /\ call.arg.len > 25 * 1024 * 1024 => call.result = "File too large"
       /\ (call.arg.len \in 1..(25 * 1024 * 1024) /\ ~call.arg.magic) =>
             call.result = "File is not a valid PDF"
       /\ (call.arg.len \in 1..(25 * 1024 * 1024) /\ call.arg.magic) =>
             call.result = "ok"

\* a byte string without the signature, longer than 25 MiB, failed as too large
C18_Witness ==
    /\ Returned("validate_pdf_file")
    /\ ~call.arg.magic /\ call.arg.len > 25 * 1024 * 1024
    /\ call.result = "File too large"

\* the text has a line that is exactly `line`
HasLine(t, line) == \E i \in 1..Len(SplitLines(t)) : SplitLines(t)[i] = line

(* C19: is_valid_qa_text(text) is true exactly when the text has a line that
   begins with Q: or Q<digits>: and a line that begins with A: or A<digits>:,
   in either order and unpaired; it is true when the text has a line Q1: and
   a line A1:, and false when no line begins with an answer marker. *)
C19_IsValidIffQuestionAndAnswerLine ==
    Returned("is_valid_qa_text") =>
       /\ call.result = "True" <=> MatchesPattern(call.text)
       /\ call.result \in {"True", "False"}
       /\ (HasLine(call.text, <<"Q", "1", ":">>) /\ HasLine(call.text, <<"A", "1", ":">>)) =>
             call.result = "True"
       /\ MarkerLines(call.text, "A") = 0 => call.result = "False"

\* the answer line comes first, another line between it and the question line
C19_Witness ==
    /\ Returned("is_valid_qa_text") /\ call.result = "True"
    /\ call.text = JoinLines(<< <<"A", "1", ":">>, <<"x">>, <<"Q", ":">> >>)

(* C20: a Processing run on the typed path makes no transcription call and
   exactly one structuring call, on the text the text area held when Submit
   was clicked; when it finalizes, the staged transcript is the empty string,
   no audio is staged, and the row later written carries them. *)
C20_TypedPathSkipsTranscription ==
    [][/\ (lastRun'.kind = "submit" /\ lastRun'.outcome # "blocked" /\ ~lastRun'.valid_audio) =>
            /\ lastRun'.qa_valid
            /\ lastRun'.tcalls = 0
            /\ lastRun'.scalls = 1
            /\ lastRun'.transcript = ""
            /\ lastRun'.typed = qa_text /\ lastRun'.typed # EMPTY_TEXT
            /\ "transcribe" \notin {lastRun'.steps[i] : i \in 1..Len(lastRun'.steps)}
            /\ lastRun'.outcome = "finalized" =>
                  /\ submission_data'.Transcript = ""
                  /\ submission_data'.QAText = lastRun'.structured
                  /\ audio_bytes_to_save' = NoneBlob
       /\ \A row \in BagToSet(store') : row.AudioBlob = NoneBlob => row.Transcript = ""
      ]_vars

\* a typed draft was finalized and stored with an empty transcript
C20_Witness ==
    /\ lastRun.kind = "submit" /\ lastRun.outcome = "finalized" /\ lastRun.typed = T_QA
    /\ submission_data.Transcript = "" /\ submission_data.QAText = T_QQA
    /\ \E row \in Rows : row.Transcript = "" /\ row.AudioBlob = NoneBlob

\* the calls that failed
FailedCalls(t) == {i \in 1..Len(t.calls) : ~t.calls[i].ok}

(* C21: transcribe_audio_enhanced sleeps only between two attempts: the
   i-th sleep follows the i-th failed attempt (zero-based index i-1) and
   lasts 1 + (i-1) = i time units; there is no sleep after the last failed
   attempt, none after a successful attempt, and none when no attempt is
   made. *)
C21_DelaysBetweenAttempts ==
    /\ \A i \in 1..Len(tr.sleeps) :
          /\ tr.sleeps[i] = 1 + (i - 1)
          /\ i \in FailedCalls(tr)
          /\ i - 1 < tr.max_retries - 1
    /\ tr.pc = "loop" => Len(tr.sleeps) = Len(tr.calls)
    /\ tr.status = "ok" =>
          (Len(tr.sleeps) = Len(tr.calls) - 1 /\ Len(tr.sleeps) = Cardinality(FailedCalls(tr)))
    /\ tr.status = "raise" =>
          (Len(tr.sleeps) = tr.max_retries - 1 /\ Cardinality(FailedCalls(tr)) = tr.max_retries)
    /\ tr.status = "none" => tr.sleeps = <<>>

\* four attempts failed: delays of 1, 2 and 3 time units, none after the fourth
C21_Witness ==
    /\ tr.max_retries = 4 /\ tr.status = "raise" /\ Len(tr.calls) = 4
    /\ tr.sleeps = <<1, 2, 3>>

\* how a Submit run or a persist run that ran to its end can end
CompletedOutcomes ==
    {"finalized", "transcription_failed", "structuring_failed", "processing_failed",
     "blocked", "stored", "store_failed"}

(* C22: after every Submit run and every persist run that ran to its end,
   whatever its outcome (finalized, transcription failed, structuring failed,
   another exception, stored, store failed), the processing flag is false;
   the Submit button is then disabled only when can_submit is false and the
   Submit to Database button, when shown, is enabled. *)
C22_FlagClearedAfterEveryRun ==
    /\ ~processing
    /\ lastRun.kind \in {"submit", "persist"} => lastRun.outcome \in CompletedOutcomes
    /\ lastRun.kind # "crash" => (ui.submit_enabled <=> lastRun.can_submit)
    /\ ui.results_shown => ui.db_enabled

\* the store write has just failed; the flag is clear and the button is offered again
C22_Witness ==
    /\ lastRun.kind = "persist" /\ lastRun.outcome = "store_failed"
    /\ ~processing /\ ui.db_enabled /\ hist.storeFailed

(* C23: in no run are valid_audio and qa_valid both true: a run that starts
   with non-empty text in the session does not render the audio inputs, so
   its valid_audio is false; a run with valid audio does not render the text
   area, so its qa_valid is false; the "not both" warning of line 531 is
   never shown. *)
C23_ChannelsNeverBothValid ==
    [][lastRun'.kind # "crash" =>
          /\ ~(lastRun'.valid_audio /\ lastRun'.qa_valid)
          /\ strip(qa_text) # EMPTY_TEXT => (~lastRun'.valid_audio /\ ~ui'.audio_visible)
          /\ lastRun'.valid_audio => (~lastRun'.qa_valid /\ ~ui'.qa_visible)
          /\ guidance(lastRun'.qa_valid, lastRun'.valid_audio) # "warning: not both"
      ]_vars

\* the text an audio run generated makes the typed channel valid while that
\* run's audio is still staged
C23_Witness ==
    /\ lastRun.qa_valid /\ ~lastRun.valid_audio /\ ~ui.audio_visible
    /\ Finalized /\ audio_bytes_to_save.tag = "bytes"

(* C24: for every max_retries, a call of transcribe_audio_enhanced that has
   ended either returned the text of a successful call to the capability or
   raised an error. *)
C24_ReturnsTextOrRaises ==
    tr.pc = "done" =>
       \/ /\ tr.status = "ok"
          /\ tr.calls # <<>>
          /\ tr.calls[Len(tr.calls)].ok
          /\ tr.value = tr.calls[Len(tr.calls)].val
       \/ tr.status = "raise"


(* C25: the staged audio is the one of the Submit run that staged the record.
   In every finalized draft the staged audio is non-null exactly when the
   record was staged by the audio path, and then it is the audio that run
   transcribed; a typed-path run, also one that re-submits a text an earlier
   audio run wrote back, stages a null audio and an empty transcript; the row
   the store writes carries the staged audio and transcript. *)
C25_StagedAudioIsOfStagingRun ==
    [][/\ Finalized' =>
             /\ audio_bytes_to_save'.tag = "bytes" <=> hist'.audio
             /\ hist'.audio => LongEnough(audio_bytes_to_save')
             /\ ~hist'.audio =>
                   (audio_bytes_to_save' = NoneBlob /\ submission_data'.Transcript = "")
       /\ SubmitFinalized' =>
             /\ hist'.audio <=> lastRun'.valid_audio
             /\ submission_data'.Transcript = lastRun'.transcript
             /\ lastRun'.valid_audio =>
                   /\ lastRun'.tcalls >= 1
                   /\ audio_bytes_to_save' = audio_to_save(wav_audio_data', file_bytes_of(audio_file'))
             /\ ~lastRun'.valid_audio => lastRun'.tcalls = 0
       /\ store' # store =>
             \E r \in BagToSet(store') :
                /\ store' = store (+) SetToBag({r})
                /\ r.AudioBlob = audio_bytes_to_save
                /\ r.Transcript = submission_data.Transcript
                /\ r.AudioBlob.tag = "bytes" <=> hist.audio
      ]_vars

\* a typed-path run has staged, with a null audio, the text a structuring call wrote back
C25_Witness ==
    /\ SubmitFinalized /\ ~lastRun.valid_audio /\ lastRun.typed = T_QQA
    /\ audio_bytes_to_save = NoneBlob /\ submission_data.Transcript = ""
    /\ ~hist.audio


(* C26: an uploaded audio enables the audio channel exactly when
   validate_audio_file accepts it: in a run that renders the uploader with a
   file in it and no recording, the run's valid_audio flag is true iff the
   validator's verdict on the file is "ok". *)
C26_UploadVerdictAgreesWithValidAudio ==
    (/\ lastRun.kind # "crash"
     /\ ui.audio_visible
     /\ audio_file.tag = "bytes"
     /\ wav_audio_data.tag # "bytes") =>
        (validate_audio_file(audio_file) = "ok" <=> lastRun.valid_audio)


(* C27: the row the store writes is the record as it stood when the draft
   became finalized: the staged data (notes, counts, score, QAText,
   Transcript), the staged audio and the document the session held then,
   whatever was edited or uploaded between the finalization and the click on
   Submit to Database. *)
C27_StoredRowIsStagedSnapshot ==
    [][store' # store => store' = store (+) SetToBag({hist.staged})]_vars

====
